---- MODULE Spec2Model ----
(***************************************************************************)
(* Model of app.py: the LINE webhook bot with a TinyDB memory.             *)
(*                                                                         *)
(* Texts are sequences of Unicode code points, so that str.strip(), int()  *)
(* and the f-strings are computed and not assumed.  The two TinyDB tables  *)
(* are sequences of documents in insertion order (get returns the first    *)
(* match, update and remove act on every match, search returns the matches *)
(* in insertion order).  Every store operation and every call to an        *)
(* external service is one step of the request thread that makes it, so    *)
(* request threads interleave between store operations.  The profile       *)
(* fields created_at and updated_at are written but never read by the      *)
(* program and are left out of the profile documents.                      *)
(***************************************************************************)
EXTENDS Integers, Sequences, FiniteSets, TLC

\* ------------------------------------------------------------------ bounds
MaxSeqEvents == 2
MaxEvents == 2
MaxRaceEvents == 3
MaxReadyEvents == 3
MaxTicks == 1
MaxSeed == 2

Users == {"u1", "u2"}
Workers == {"w1", "w2"}
SeqWorker == "w1"

\* ------------------------------------------------------------------- texts
ResetKeyword == <<12522, 12475, 12483, 12488>>
MemoryKeyword == <<35352, 25014, 12415, 12379, 12390>>
NameText == <<32, 84, 97, 114, 111>>
HelloText == <<104, 105>>

Texts ==
  { ResetKeyword, MemoryKeyword, NameText,
    <<32, 49, 32>>, <<49, 50, 48>>, <<48>>, <<49, 50, 49>>, <<>> }

RaceTexts == { ResetKeyword, MemoryKeyword, NameText, <<56>> }

OnboardTexts == { NameText, <<56>> }

ReadyTexts == { HelloText }

AIReplies == { <<32, 79, 75, 10>> }
SummaryReplies == { <<10, 83, 32>> }

Whitespace == {9, 10, 11, 12, 13, 28, 29, 30, 31, 32, 133, 160, 12288}

RECURSIVE LStrip(_)
LStrip(s) ==
  IF s # <<>> /\ Head(s) \in Whitespace THEN LStrip(Tail(s)) ELSE s

RECURSIVE RStrip(_)
RStrip(s) ==
  IF s # <<>> /\ s[Len(s)] \in Whitespace
  THEN RStrip(SubSeq(s, 1, Len(s) - 1))
  ELSE s

Strip(s) == RStrip(LStrip(s))

RECURSIVE Concat(_)
Concat(ss) == IF ss = <<>> THEN <<>> ELSE Head(ss) \o Concat(Tail(ss))

\* ------------------------------------------------------------------- int()
IsDigit(c) == c \in 48..57 \/ c \in 65296..65305

DigitVal(c) == IF c \in 48..57 THEN c - 48 ELSE c - 65296

\* digit (['_'] digit)* : every character is a digit or an underscore, the
\* first and the last are digits and no two underscores are adjacent
WellFormedDigits(d) ==
  /\ d # <<>>
  /\ \A i \in 1..Len(d) : IsDigit(d[i]) \/ d[i] = 95
  /\ IsDigit(d[1])
  /\ IsDigit(d[Len(d)])
  /\ \A i \in 1..(Len(d) - 1) : ~(d[i] = 95 /\ d[i + 1] = 95)

RECURSIVE DigitsValue(_, _)
DigitsValue(d, acc) ==
  IF d = <<>> THEN acc
  ELSE IF Head(d) = 95 THEN DigitsValue(Tail(d), acc)
  ELSE DigitsValue(Tail(d), 10 * acc + DigitVal(Head(d)))

\* int(s): <<n>> when s is a decimal literal, <<>> when int raises ValueError
ParseInt(s) ==
  LET t == Strip(s)
      signed == t # <<>> /\ Head(t) \in {43, 45}
      d == IF signed THEN Tail(t) ELSE t
  IN IF ~WellFormedDigits(d) THEN <<>>
     ELSE IF signed /\ Head(t) = 45 THEN << 0 - DigitsValue(d, 0) >>
     ELSE << DigitsValue(d, 0) >>

\* the upper limit taken with >= : 120 itself is refused
AgeAtLeastLimit(age) == age >= 120

\* line 319, the upper limit
AgeTooBig(age) == age > 120

\* lines 317-321: the parsed age, or <<>> when the except branch is taken
ParseAge(age_str) ==
  LET p == ParseInt(age_str)
  IN IF p = <<>> THEN <<>>
     ELSE IF p[1] <= 0 \/ AgeTooBig(p[1]) THEN <<>>
     ELSE p

\* str(n) of a non-negative integer, as the f-strings format the age
RECURSIVE IntToStr(_)
IntToStr(n) ==
  IF n < 10 THEN << 48 + n >> ELSE IntToStr(n \div 10) \o << 48 + (n % 10) >>


\* -------------------------------------------------------------- fixed texts
BaseSystem == <<12354, 12394, 12383>>
DefaultName == <<12365, 12415>>
ResetReply == <<12424, 12363, 12429, 12358>>
AgeRetryText == <<24180, 12428, 12356, 12399>>
FallbackText == <<12372, 12417, 12435, 12394>>
MemoryErrorText == <<12372, 12417, 12435, 12397>>
MemoryTruncated == <<10, 8230>>
MemoryViewLimit == 2500
RecentLimit == 8
SummaryEvery == 10
SummaryWindow == 50

NameAck(name) ==
  <<12411, 12358, 12289, 12300>> \o name \o <<12301, 10, 24180, 12428, 12356>>

AgeAck(age, name) == IntToStr(age) \o <<32, 25165, 12289>> \o name \o <<12424>>

MemoryReply(data) == <<128216, 10>> \o data

\* the five rule texts of lines 40-43, 45-48, 50-53, 55-58 and 60-63
DefaultRule == <<23567, 23398, 29983>>
RuleUpTo6 == <<65302, 25165>>
RuleUpTo8 == <<65303, 12316, 65304, 25165>>
RuleUpTo10 == <<65305, 12316, 65297, 65296, 25165>>
RuleOlder == <<39640, 23398, 24180>>

\* the first comparison taken with < : a child of 6 gets the rule for 7-8
get_age_language_rule_lt(age) ==
  IF age = <<>> THEN DefaultRule
  ELSE IF age[1] < 6 THEN RuleUpTo6
  ELSE IF age[1] <= 8 THEN RuleUpTo8
  ELSE IF age[1] <= 10 THEN RuleUpTo10
  ELSE RuleOlder

\* lines 38-63
get_age_language_rule(age) ==
  IF age = <<>> THEN DefaultRule
  ELSE IF age[1] <= 6 THEN RuleUpTo6
  ELSE IF age[1] <= 8 THEN RuleUpTo8
  ELSE IF age[1] <= 10 THEN RuleUpTo10
  ELSE RuleOlder

\* ------------------------------------------------------------------- store
\* a new profile that already counts the message that created it
NewUserCounted(line_user_id) ==
  [ user_id |-> line_user_id, display_name |-> <<>>, age |-> <<>>,
    state |-> "need_name", persona_summary |-> <<>>, message_count |-> 1 ]

\* a profile document as get_or_create_user inserts it
NewUser(line_user_id) ==
  [ user_id |-> line_user_id, display_name |-> <<>>, age |-> <<>>,
    state |-> "need_name", persona_summary |-> <<>>, message_count |-> 0 ]

Matching(table, line_user_id) ==
  SelectSeq(table, LAMBDA d : d.user_id = line_user_id)

\* table.get(U.user_id == id): the first matching document, <<>> for None
TableGet(table, line_user_id) ==
  LET m == Matching(table, line_user_id)
  IN IF m = <<>> THEN <<>> ELSE << m[1] >>

\* an update without its query: every document of the table
TableUpdateAll(table, line_user_id, fields) ==
  [ i \in 1..Len(table) |->
      [ k \in DOMAIN table[i] |->
          IF k \in DOMAIN fields THEN fields[k] ELSE table[i][k] ] ]

\* table.update(fields, U.user_id == id): every matching document
TableUpdate(table, line_user_id, fields) ==
  [ i \in 1..Len(table) |->
      IF table[i].user_id = line_user_id
      THEN [ k \in DOMAIN table[i] |->
               IF k \in DOMAIN fields THEN fields[k] ELSE table[i][k] ]
      ELSE table[i] ]

\* a remove that stops at the first matching document
TableRemoveFirst(table, line_user_id) ==
  LET hits == { i \in 1..Len(table) : table[i].user_id = line_user_id }
  IN IF hits = {} THEN table
     ELSE LET k == CHOOSE i \in hits : \A j \in hits : i <= j
          IN SubSeq(table, 1, k - 1) \o SubSeq(table, k + 1, Len(table))

\* a remove without its query: the table is emptied
TableRemoveAll(table, line_user_id) == <<>>

\* table.remove(U.user_id == id)
TableRemove(table, line_user_id) ==
  SelectSeq(table, LAMBDA d : d.user_id # line_user_id)

\* the text trimmed before it is stored
MessageTrimmed(line_user_id, role, content, now) ==
  [ user_id |-> line_user_id, role |-> role, content |-> Strip(content),
    created_at |-> now ]

\* lines 106-111
Message(line_user_id, role, content, now) ==
  [ user_id |-> line_user_id, role |-> role, content |-> content,
    created_at |-> now ]

\* sorted(rows, key=created_at): Python's sort is stable
RECURSIVE InsertByCreatedAt(_, _)
InsertByCreatedAt(sorted, r) ==
  IF sorted = <<>> THEN << r >>
  ELSE IF sorted[Len(sorted)].created_at <= r.created_at
       THEN Append(sorted, r)
       ELSE Append(InsertByCreatedAt(SubSeq(sorted, 1, Len(sorted) - 1), r),
                   sorted[Len(sorted)])

RECURSIVE SortByCreatedAt(_)
SortByCreatedAt(rows) ==
  IF rows = <<>> THEN <<>>
  ELSE InsertByCreatedAt(SortByCreatedAt(SubSeq(rows, 1, Len(rows) - 1)),
                         rows[Len(rows)])

\* seq[-n:]
LastN(seq, n) ==
  IF Len(seq) <= n THEN seq ELSE SubSeq(seq, Len(seq) - n + 1, Len(seq))

\* the rows cut as the store returns them, without the sort
get_recent_unsorted(table, line_user_id, limit) ==
  LastN(Matching(table, line_user_id), limit)

\* lines 120-125
get_recent_messages(table, line_user_id, limit) ==
  LastN(SortByCreatedAt(Matching(table, line_user_id)), limit)

\* lines 135-137: the contents of the last 50 user-authored turns
RecentUserMsgs(table, line_user_id) ==
  LET rows == SelectSeq(table,
                LAMBDA d : d.user_id = line_user_id /\ d.role = "user")
      rows_sorted == LastN(SortByCreatedAt(rows), SummaryWindow)
  IN [ i \in 1..Len(rows_sorted) |-> rows_sorted[i].content ]

\* lines 130-132, on the profile document handed to the summarizer
SummaryDue(user) ==
  ~(user.message_count < SummaryEvery \/ user.message_count % SummaryEvery # 0)

\* lines 284-288: the store file as text, cut at 2500 characters
Dump(users, msgs) ==
  Concat([ i \in 1..Len(users) |->
             users[i].display_name \o users[i].persona_summary \o <<10>> ])
  \o Concat([ i \in 1..Len(msgs) |-> msgs[i].content \o <<10>> ])

MemoryData(users, msgs) ==
  LET data == Dump(users, msgs)
  IN IF Len(data) > MemoryViewLimit
     THEN SubSeq(data, 1, MemoryViewLimit) \o MemoryTruncated
     ELSE data

\* the texts of the three optional blocks: lines 194, 200 and 206-210
IdentityPrefix == <<21517, 21069, 12300>>
IdentityBlock(display_name) == IdentityPrefix \o display_name \o <<12301>>

AgeFactSuffix == <<32, 25165>>
AgeFactBlock(age) == IntToStr(age) \o AgeFactSuffix

PersonaPrefix == <<29305, 24500, 10, 10>>
PersonaBlock(persona) == PersonaPrefix \o persona

SystemBlock(c) == [ role |-> "system", content |-> c ]

\* the identity block appended without the test of line 191
BuildPromptUntested(user, recent, user_text) ==
  LET display_name == Strip(user.display_name)
      age == user.age
      persona == user.persona_summary
  IN << SystemBlock(BaseSystem \o get_age_language_rule(age)) >>
     \o << SystemBlock(IdentityBlock(display_name)) >>
     \o (IF age # <<>>
         THEN << SystemBlock(AgeFactBlock(age[1])) >>
         ELSE <<>>)
     \o (IF persona # <<>>
         THEN << SystemBlock(PersonaBlock(persona)) >>
         ELSE <<>>)
     \o [ i \in 1..Len(recent) |->
            [ role |-> recent[i].role, content |-> recent[i].content ] ]
     \o << [ role |-> "user", content |-> user_text ] >>

\* lines 169-221: the blocks handed to the backend
BuildPrompt(user, recent, user_text) ==
  LET display_name == Strip(user.display_name)
      age == user.age
      persona == user.persona_summary
  IN << SystemBlock(BaseSystem \o get_age_language_rule(age)) >>
     \o (IF display_name # <<>>
         THEN << SystemBlock(IdentityBlock(display_name)) >>
         ELSE <<>>)
     \o (IF age # <<>>
         THEN << SystemBlock(AgeFactBlock(age[1])) >>
         ELSE <<>>)
     \o (IF persona # <<>>
         THEN << SystemBlock(PersonaBlock(persona)) >>
         ELSE <<>>)
     \o [ i \in 1..Len(recent) |->
            [ role |-> recent[i].role, content |-> recent[i].content ] ]
     \o << [ role |-> "user", content |-> user_text ] >>

\* ------------------------------------------------------------------- state
VARIABLES
  users_table,      \* db.table("users"): profile documents, insertion order
  messages_table,   \* db.table("messages"): turns, insertion order
  clock,            \* datetime.utcnow(), in clock ticks
  th,               \* the request threads: position and local variables
  nEvents,          \* events received so far
  nReplied,         \* replies handed to the delivery so far
  ticks,            \* clock ticks so far
  was_reset         \* per user: the last finished event was a reset

vars ==
  << users_table, messages_table, clock, th, nEvents, nReplied, ticks,
     was_reset >>

Idle ==
  [ pc |-> "idle", uid |-> "", text |-> <<>>, user |-> <<>>, path |-> "",
    role |-> "", reply |-> <<>>, now |-> 0, mc |-> 0, recent |-> <<>>,
    prompt |-> <<>>, rows |-> <<>>, summary |-> <<>>, fired |-> FALSE,
    base |-> 0, after_reset |-> FALSE, overlap |-> FALSE,
    created |-> FALSE ]

\* The store after one user sent a name, then an age, then normal messages:
\* n events in all, one after the other, every backend call succeeding.
SeedName == Strip(NameText)

SeedTurn(line_user_id, i) ==
  LET ev == (i + 1) \div 2
      role == IF i % 2 = 1 THEN "user" ELSE "assistant"
      content ==
        IF ev = 1 THEN (IF role = "user" THEN NameText ELSE NameAck(SeedName))
        ELSE IF ev = 2 THEN (IF role = "user" THEN <<56>>
                             ELSE AgeAck(8, SeedName))
        ELSE (IF role = "user" THEN HelloText ELSE <<79, 75>>)
  IN Message(line_user_id, role, content, i)

SeedMessages(line_user_id, n) ==
  [ i \in 1..(2 * n) |-> SeedTurn(line_user_id, i) ]

SeedUsers(line_user_id, n) ==
  IF n = 0 THEN <<>>
  ELSE << [ user_id |-> line_user_id,
            display_name |-> SeedName,
            age |-> IF n >= 2 THEN <<8>> ELSE <<>>,
            state |-> IF n >= 2 THEN "ready" ELSE "need_age",
            persona_summary |-> IF n > SummaryEvery THEN <<83>> ELSE <<>>,
            message_count |-> n ] >>

SeqSeeds == (0..MaxSeed) \cup {SummaryEvery - 1, SummaryEvery, 2 * SummaryEvery}

InitFrom(seeds1, seeds2) ==
  \E n \in seeds1, m \in seeds2 :
    /\ users_table = SeedUsers("u1", n) \o SeedUsers("u2", m)
    /\ messages_table = SeedMessages("u1", n) \o SeedMessages("u2", m)
    /\ clock = IF n >= m THEN 2 * n ELSE 2 * m
    /\ th = [ w \in Workers |-> Idle ]
    /\ nEvents = 0
    /\ nReplied = 0
    /\ ticks = 0
    /\ was_reset = [ u \in Users |-> FALSE ]

Init == InitFrom({SummaryEvery}, {0})
SeqInit == InitFrom(SeqSeeds, {0})
RaceInit == InitFrom({0}, {2})
ReadyInit == InitFrom({SummaryEvery}, {1})

\* generate_ai_reply called with a profile document: the names are the
\* trimmed texts line 304 stores, the ages those line 328 stores, or none
PromptNames == { Strip(t) : t \in { <<>>, NameText, <<32, 49, 32>> } }
PromptAges == { <<>> } \cup { << a >> : a \in 1..120 }
PromptPersonas == { <<>> } \cup { Strip(r) : r \in SummaryReplies }
PromptSeeds == {2, 5}

PromptInit ==
  \E n \in PromptSeeds, name \in PromptNames, age \in PromptAges,
     persona \in PromptPersonas, t \in ReadyTexts :
    /\ users_table = SeedUsers("u1", n)
    /\ messages_table = SeedMessages("u1", n)
    /\ clock = 2 * n
    /\ th = [ w \in Workers |->
               IF w = SeqWorker
               THEN [ Idle EXCEPT
                        !.pc = "recent", !.path = "ai", !.uid = "u1",
                        !.text = t, !.base = 2 * n,
                        !.user = << [ SeedUsers("u1", n)[1] EXCEPT
                                        !.display_name = name,
                                        !.age = age,
                                        !.persona_summary = persona ] >> ]
               ELSE Idle ]
    /\ nEvents = 1
    /\ nReplied = 0
    /\ ticks = 0
    /\ was_reset = [ u \in Users |-> FALSE ]

\* ----------------------------------------------------------------- webhook
InFlight(w) == th[w].pc \notin {"idle", "error"}

\* another request thread is handling an event of the same user
Overlaps(w, u) == \E o \in Workers \ {w} : InFlight(o) /\ th[o].uid = u

\* lines 261-265: the next text message event of a request
Receive(w, u, t, limit) ==
  /\ ~InFlight(w)
  /\ nEvents < limit
  /\ th' = [ o \in Workers |->
               IF o = w
               THEN [ Idle EXCEPT !.pc = "get_user", !.uid = u, !.text = t,
                                  !.base = Len(messages_table),
                                  !.after_reset = was_reset[u],
                                  !.overlap = Overlaps(w, u) ]
               ELSE IF InFlight(o) /\ th[o].uid = u
               THEN [ th[o] EXCEPT !.overlap = TRUE ]
               ELSE th[o] ]
  /\ nEvents' = nEvents + 1
  /\ was_reset' = [ was_reset EXCEPT ![u] = FALSE ]
  /\ UNCHANGED << users_table, messages_table, clock, nReplied, ticks >>

\* lines 269-340: the branch taken on the loaded profile document
NeedsReset(user_text) == Strip(user_text) = ResetKeyword

NeedsMemoryView(user_text) == Strip(user_text) = MemoryKeyword

RouteOn(r, user, state) ==
  LET name == IF user[1].display_name # <<>> THEN user[1].display_name
              ELSE DefaultName
      age == ParseAge(Strip(r.text))
  IN IF NeedsReset(r.text)
     THEN [ r EXCEPT !.user = user, !.pc = "del_users", !.path = "reset",
                     !.reply = << ResetReply >> ]
     ELSE IF NeedsMemoryView(r.text)
     THEN [ r EXCEPT !.user = user, !.pc = "mem_view", !.path = "memory" ]
     ELSE IF state = "need_name"
     THEN [ r EXCEPT !.user = user, !.pc = "name_update", !.path = "name",
                     !.reply = << NameAck(Strip(r.text)) >> ]
     ELSE IF state = "need_age" /\ age = <<>>
     THEN [ r EXCEPT !.user = user, !.pc = "sm_now", !.path = "age_bad",
                     !.role = "user", !.reply = << AgeRetryText >> ]
     ELSE IF state = "need_age"
     THEN [ r EXCEPT !.user = user, !.pc = "age_update", !.path = "age_ok",
                     !.reply = << AgeAck(age[1], name) >> ]
     ELSE [ r EXCEPT !.user = user, !.pc = "recent", !.path = "ai" ]

\* line 269
Route(r, user) == RouteOn(r, user, user[1].state)

\* line 70
GetUser(w) ==
  /\ th[w].pc = "get_user"
  /\ LET user == TableGet(users_table, th[w].uid)
     IN th' = [ th EXCEPT ![w] =
                  IF user = <<>> THEN [ @ EXCEPT !.pc = "insert_user" ]
                  ELSE Route(@, user) ]
  /\ UNCHANGED << users_table, messages_table, clock, nEvents, nReplied, ticks,
                  was_reset >>

\* lines 74-83
InsertUser(w) ==
  /\ th[w].pc = "insert_user"
  /\ users_table' = Append(users_table, NewUser(th[w].uid))
  /\ th' = [ th EXCEPT ![w].pc = "reget_user", ![w].created = TRUE ]
  /\ UNCHANGED << messages_table, clock, nEvents, nReplied, ticks, was_reset >>

\* line 84, and line 269 raising on None
RegetUser(w) ==
  /\ th[w].pc = "reget_user"
  /\ LET user == TableGet(users_table, th[w].uid)
     IN th' = [ th EXCEPT ![w] =
                  IF user = <<>> THEN [ @ EXCEPT !.pc = "error" ]
                  ELSE Route(@, user) ]
  /\ UNCHANGED << users_table, messages_table, clock, nEvents, nReplied, ticks,
                  was_reset >>

\* line 97
DeleteUsers(w) ==
  /\ th[w].pc = "del_users"
  /\ users_table' = TableRemove(users_table, th[w].uid)
  /\ th' = [ th EXCEPT ![w].pc = "del_msgs" ]
  /\ UNCHANGED << messages_table, clock, nEvents, nReplied, ticks, was_reset >>

\* line 98
DeleteMessages(w) ==
  /\ th[w].pc = "del_msgs"
  /\ messages_table' = TableRemove(messages_table, th[w].uid)
  /\ th' = [ th EXCEPT ![w].pc = "reply" ]
  /\ UNCHANGED << users_table, clock, nEvents, nReplied, ticks, was_reset >>

\* lines 282-299
MemoryView(w) ==
  /\ th[w].pc = "mem_view"
  /\ \E ok \in BOOLEAN :
       th' = [ th EXCEPT ![w].pc = "reply",
                         ![w].reply =
                           IF ok
                           THEN << MemoryReply(MemoryData(users_table,
                                                          messages_table)) >>
                           ELSE << MemoryErrorText >> ]
  /\ UNCHANGED << users_table, messages_table, clock, nEvents, nReplied, ticks,
                  was_reset >>

\* the name is stored and the state is left as it was
NameUpdateKeepsState(w) ==
  /\ th[w].pc = "name_update"
  /\ users_table' = TableUpdate(users_table, th[w].uid,
                      [ display_name |-> Strip(th[w].text) ])
  /\ th' = [ th EXCEPT ![w].pc = "sm_now", ![w].role = "user" ]
  /\ UNCHANGED << messages_table, clock, nEvents, nReplied, ticks, was_reset >>

\* line 304
NameUpdate(w) ==
  /\ th[w].pc = "name_update"
  /\ users_table' = TableUpdate(users_table, th[w].uid,
                      [ display_name |-> Strip(th[w].text),
                        state |-> "need_age" ])
  /\ th' = [ th EXCEPT ![w].pc = "sm_now", ![w].role = "user" ]
  /\ UNCHANGED << messages_table, clock, nEvents, nReplied, ticks, was_reset >>

\* line 328
AgeUpdate(w) ==
  /\ th[w].pc = "age_update"
  /\ users_table' = TableUpdate(users_table, th[w].uid,
                      [ age |-> ParseAge(Strip(th[w].text)),
                        state |-> "ready" ])
  /\ th' = [ th EXCEPT ![w].pc = "sm_now", ![w].role = "user" ]
  /\ UNCHANGED << messages_table, clock, nEvents, nReplied, ticks, was_reset >>

\* ------------------------------------------------------------ save_message
\* count_up left at its default in every call
CountsEveryTurn(role) == role \in {"user", "assistant"}

\* line 113, with the count_up each call site passes: the default True for
\* the user's text, False for the bot's text
CountsUp(role) == role = "user"

\* lines 231 and 232 exchanged: the summarizer runs before the bot's text is
\* saved
AfterSaveSummaryFirst(r) ==
  IF r.role = "user" /\ r.path = "ai" /\ SummaryDue(r.user[1])
  THEN [ r EXCEPT !.pc = "summ_search" ]
  ELSE IF r.role = "user"
  THEN [ r EXCEPT !.pc = "sm_now", !.role = "assistant" ]
  ELSE [ r EXCEPT !.pc = "reply" ]

\* where the event goes on when save_message returns: to the save of the
\* bot's text, to the summarizer (line 232), or to the delivery
AfterSave(r) ==
  IF r.role = "user" THEN [ r EXCEPT !.pc = "sm_now", !.role = "assistant" ]
  ELSE IF r.path = "ai" /\ SummaryDue(r.user[1])
  THEN [ r EXCEPT !.pc = "summ_search" ]
  ELSE [ r EXCEPT !.pc = "reply" ]

\* line 105
SaveNow(w) ==
  /\ th[w].pc = "sm_now"
  /\ th' = [ th EXCEPT ![w].pc = "sm_insert", ![w].now = clock ]
  /\ UNCHANGED << users_table, messages_table, clock, nEvents, nReplied, ticks,
                  was_reset >>

\* lines 106-111
SaveInsert(w) ==
  /\ th[w].pc = "sm_insert"
  /\ LET content == IF th[w].role = "user" THEN th[w].text
                    ELSE th[w].reply[1]
     IN messages_table' =
          Append(messages_table,
                 Message(th[w].uid, th[w].role, content, th[w].now))
  /\ th' = [ th EXCEPT ![w] =
               IF CountsUp(@.role) THEN [ @ EXCEPT !.pc = "sm_get" ]
               ELSE AfterSave(@) ]
  /\ UNCHANGED << users_table, clock, nEvents, nReplied, ticks, was_reset >>

\* lines 114-116
SaveGet(w) ==
  /\ th[w].pc = "sm_get"
  /\ LET user == TableGet(users_table, th[w].uid)
     IN th' = [ th EXCEPT ![w] =
                  IF user = <<>> THEN AfterSave(@)
                  ELSE [ @ EXCEPT !.pc = "sm_update",
                                  !.mc = user[1].message_count + 1 ] ]
  /\ UNCHANGED << users_table, messages_table, clock, nEvents, nReplied, ticks,
                  was_reset >>

\* line 117
SaveUpdate(w) ==
  /\ th[w].pc = "sm_update"
  /\ users_table' = TableUpdate(users_table, th[w].uid,
                                [ message_count |-> th[w].mc ])
  /\ th' = [ th EXCEPT ![w] = AfterSave(@) ]
  /\ UNCHANGED << messages_table, clock, nEvents, nReplied, ticks, was_reset >>

\* ------------------------------------------------------- generate_ai_reply
\* lines 169-221
Recent(w) ==
  /\ th[w].pc = "recent"
  /\ LET recent == get_recent_messages(messages_table, th[w].uid,
                                       RecentLimit)
     IN th' = [ th EXCEPT ![w].pc = "call_backend",
                          ![w].recent = recent,
                          ![w].prompt =
                             BuildPrompt(th[w].user[1], recent, th[w].text) ]
  /\ UNCHANGED << users_table, messages_table, clock, nEvents, nReplied, ticks,
                  was_reset >>

\* no except branch: the backend's exception ends the request
OnBackendErrorRaised(r) == [ r EXCEPT !.pc = "error" ]

\* an except branch that only sets the fallback text
OnBackendErrorUnlogged(r) ==
  [ r EXCEPT !.pc = "reply", !.path = "fallback",
             !.reply = << FallbackText >> ]

\* the except branch of the webhook, lines 343-348
OnBackendError(r) ==
  [ r EXCEPT !.pc = "sm_now", !.role = "user", !.path = "fallback",
             !.reply = << FallbackText >> ]

\* lines 223-227: the backend answers, or the call raises
CallBackend(w) ==
  /\ th[w].pc = "call_backend"
  /\ \E ok \in BOOLEAN, r \in AIReplies :
       th' = [ th EXCEPT ![w] =
                 IF ok
                 THEN [ @ EXCEPT !.pc = "sm_now", !.role = "user",
                                 !.reply = << Strip(r) >> ]
                 ELSE OnBackendError(@) ]
  /\ UNCHANGED << users_table, messages_table, clock, nEvents, nReplied, ticks,
                  was_reset >>

\* -------------------------------------- update_persona_summary_if_needed
\* lines 135-139
SummarySearch(w) ==
  /\ th[w].pc = "summ_search"
  /\ LET rows == RecentUserMsgs(messages_table, th[w].uid)
     IN th' = [ th EXCEPT ![w].rows = rows,
                          ![w].pc = IF rows = <<>> THEN "reply"
                                    ELSE "summ_call" ]
  /\ UNCHANGED << users_table, messages_table, clock, nEvents, nReplied, ticks,
                  was_reset >>

\* no try around the call: the exception reaches the except branch of the
\* webhook, which replaces the reply and logs both turns again
OnSummaryErrorRaised(r) == [ OnBackendError(r) EXCEPT !.fired = TRUE ]

\* lines 162-163: the exception is printed and the function returns
OnSummaryError(r) == [ r EXCEPT !.fired = TRUE, !.pc = "reply" ]

\* lines 149-160, 162-163
SummaryCall(w) ==
  /\ th[w].pc = "summ_call"
  /\ \E ok \in BOOLEAN, r \in SummaryReplies :
       th' = [ th EXCEPT ![w] =
                 IF ok
                 THEN [ @ EXCEPT !.fired = TRUE, !.summary = Strip(r),
                                 !.pc = "summ_update" ]
                 ELSE OnSummaryError(@) ]
  /\ UNCHANGED << users_table, messages_table, clock, nEvents, nReplied, ticks,
                  was_reset >>

\* line 161
SummaryUpdate(w) ==
  /\ th[w].pc = "summ_update"
  /\ users_table' = TableUpdate(users_table, th[w].uid,
                                [ persona_summary |-> th[w].summary ])
  /\ th' = [ th EXCEPT ![w].pc = "reply" ]
  /\ UNCHANGED << messages_table, clock, nEvents, nReplied, ticks, was_reset >>

\* ------------------------------------------------------------ reply_to_line
\* lines 239-250: the reply text is handed to the delivery, and the loop of
\* line 261 goes on to the next event
Reply(w) ==
  /\ th[w].pc = "reply"
  /\ th' = [ th EXCEPT ![w] = Idle ]
  /\ nReplied' = nReplied + 1
  /\ was_reset' = [ was_reset EXCEPT ![th[w].uid] = (th[w].path = "reset") ]
  /\ UNCHANGED << users_table, messages_table, clock, nEvents, ticks >>

\* datetime.utcnow() moves on
Tick ==
  /\ ticks < MaxTicks
  /\ clock' = clock + 1
  /\ ticks' = ticks + 1
  /\ UNCHANGED << users_table, messages_table, th, nEvents, nReplied, was_reset >>

\* ----------------------------------------------------------- specifications
Step(w) ==
  \/ GetUser(w) \/ InsertUser(w) \/ RegetUser(w)
  \/ DeleteUsers(w) \/ DeleteMessages(w) \/ MemoryView(w)
  \/ NameUpdate(w) \/ AgeUpdate(w)
  \/ SaveNow(w) \/ SaveInsert(w) \/ SaveGet(w) \/ SaveUpdate(w)
  \/ Recent(w) \/ CallBackend(w)
  \/ SummarySearch(w) \/ SummaryCall(w) \/ SummaryUpdate(w)
  \/ Reply(w)

\* request threads run concurrently: Flask serves each request in a thread
Next ==
  \/ Tick
  \/ \E w \in Workers :
       \/ \E u \in Users, t \in RaceTexts : Receive(w, u, t, MaxEvents)
       \/ Step(w)

Spec == Init /\ [][Next]_vars

\* one event at a time, handled from its first to its last step
SeqNext ==
  \/ \E u \in Users, t \in Texts :
       /\ \A w \in Workers : ~InFlight(w)
       /\ Receive(SeqWorker, u, t, MaxSeqEvents)
  \/ Step(SeqWorker)

SeqSpec == SeqInit /\ [][SeqNext]_vars

\* concurrent events of one new user who sends names and ages: the steps of
\* the reset, memory-view and summarizer branches cannot occur
RaceStep(w) ==
  \/ GetUser(w) \/ InsertUser(w) \/ RegetUser(w)
  \/ NameUpdate(w) \/ AgeUpdate(w)
  \/ SaveNow(w) \/ SaveInsert(w) \/ SaveGet(w) \/ SaveUpdate(w)
  \/ Recent(w) \/ CallBackend(w)
  \/ Reply(w)

RaceNext ==
  \E w \in Workers :
    \/ \E t \in OnboardTexts : Receive(w, "u1", t, MaxRaceEvents)
    \/ RaceStep(w)

RaceSpec == RaceInit /\ [][RaceNext]_vars

\* concurrent normal-mode events of one user whose onboarding is done
ReadyStep(w) ==
  \/ GetUser(w)
  \/ SaveNow(w) \/ SaveInsert(w) \/ SaveGet(w) \/ SaveUpdate(w)
  \/ Recent(w) \/ CallBackend(w)
  \/ SummarySearch(w) \/ SummaryCall(w) \/ SummaryUpdate(w)
  \/ Reply(w)

ReadyNext ==
  \/ Tick
  \/ \E w \in Workers :
       \/ \E t \in ReadyTexts : Receive(w, "u1", t, MaxReadyEvents)
       \/ ReadyStep(w)

ReadySpec == ReadyInit /\ [][ReadyNext]_vars

\* generate_ai_reply from its first line to the delivery of its result
PromptNext ==
  \/ Recent(SeqWorker) \/ CallBackend(SeqWorker)
  \/ SaveNow(SeqWorker) \/ SaveInsert(SeqWorker)
  \/ SaveGet(SeqWorker) \/ SaveUpdate(SeqWorker)
  \/ Reply(SeqWorker)

PromptSpec == PromptInit /\ [][PromptNext]_vars

\* ------------------------------------------------------------------ claims
Profile(u) == TableGet(users_table, u)

UserTurns(u) ==
  SelectSeq(messages_table, LAMBDA d : d.user_id = u /\ d.role = "user")

AtReply(w) == th[w].pc = "reply"

\* C1: when a reset has been handled, the user has no profile and no stored
\* turn (so the reset text is not logged either), whatever state the profile
\* was in; and the event that follows a reset of the same user loads a
\* profile that it created itself, in state need_name, with no name, no age,
\* no summary and a count of 0.
C1_ResetStartsOver ==
  \A w \in Workers :
    /\ (AtReply(w) /\ th[w].path = "reset") =>
         /\ Profile(th[w].uid) = <<>>
         /\ Matching(messages_table, th[w].uid) = <<>>
         /\ th[w].reply = << ResetReply >>
    /\ (th[w].after_reset /\ th[w].user # <<>>) =>
         /\ th[w].created
         /\ th[w].user[1].state = "need_name"
         /\ th[w].user[1].display_name = <<>>
         /\ th[w].user[1].age = <<>>
         /\ th[w].user[1].persona_summary = <<>>
         /\ th[w].user[1].message_count = 0

\* a reset was handled and the next message of that user, who has no stored
\* turn left, is being taken as a new user's name
C1_Witness ==
  \E w \in Workers :
    /\ th[w].after_reset
    /\ th[w].pc = "name_update"
    /\ th[w].base = 0

\* C2: for an event that found the profile in need_age (and is no reset or
\* memory-view command): when int() of the trimmed text is in 1..120 the
\* stored age is that integer and the state is ready; otherwise the state is
\* still need_age, the age is unset, the reply is the fixed "digits" text and
\* the user's text is the turn logged first.
C2_AgeGate ==
  \A w \in Workers :
    ( /\ AtReply(w)
      /\ th[w].user[1].state = "need_age"
      /\ ~NeedsReset(th[w].text)
      /\ ~NeedsMemoryView(th[w].text) ) =>
      LET p == ParseInt(Strip(th[w].text))
          prof == Profile(th[w].uid)
      IN /\ prof # <<>>
         /\ IF p # <<>> /\ p[1] >= 1 /\ p[1] <= 120
            THEN /\ prof[1].age = p
                 /\ prof[1].state = "ready"
            ELSE /\ prof[1].state = "need_age"
                 /\ prof[1].age = <<>>
                 /\ th[w].reply = << AgeRetryText >>
                 /\ Len(messages_table) > th[w].base
                 /\ messages_table[th[w].base + 1].user_id = th[w].uid
                 /\ messages_table[th[w].base + 1].role = "user"
                 /\ messages_table[th[w].base + 1].content = th[w].text

\* the upper boundary: the text "120" was accepted
C2_Witness ==
  \E w \in Workers :
    /\ AtReply(w)
    /\ th[w].path = "age_ok"
    /\ th[w].text = <<49, 50, 48>>
    /\ Profile(th[w].uid)[1].age = <<120>>

\* C3, as claimed: the event that created the profile found message_count 0
\* and state need_name, and its reply asks for a name (the only text of the
\* program that does is the reply to a reset).
C3_FirstReplyAsksName ==
  \A w \in Workers :
    (AtReply(w) /\ th[w].created) =>
      /\ th[w].user[1].message_count = 0
      /\ th[w].user[1].state = "need_name"
      /\ th[w].reply = << ResetReply >>

\* C3, amended: the event that created the profile found message_count 0 and
\* state need_name; unless its text is the reset or the memory-view keyword,
\* the text itself is taken as the name: display_name is the trimmed text,
\* the state is need_age and the reply echoes the name and asks for the age.
C3_FirstMessageIsName ==
  \A w \in Workers :
    (AtReply(w) /\ th[w].created) =>
      /\ th[w].user[1].message_count = 0
      /\ th[w].user[1].state = "need_name"
      /\ IF NeedsReset(th[w].text) THEN th[w].reply = << ResetReply >>
         ELSE IF NeedsMemoryView(th[w].text) THEN Profile(th[w].uid) = th[w].user
         ELSE /\ th[w].reply = << NameAck(Strip(th[w].text)) >>
              /\ Profile(th[w].uid)[1].display_name = Strip(th[w].text)
              /\ Profile(th[w].uid)[1].state = "need_age"

\* a new user's first text " Taro" was taken as the name "Taro"
C3_Witness ==
  \E w \in Workers :
    /\ AtReply(w)
    /\ th[w].created
    /\ th[w].text = NameText
    /\ Profile(th[w].uid)[1].display_name = <<84, 97, 114, 111>>

C5_SummaryOnMultipleOfTen ==
  \A w \in Workers :
    (AtReply(w) /\ th[w].path = "ai") =>
      LET count == Profile(th[w].uid)[1].message_count
      IN th[w].fired <=> (count >= 10 /\ count % 10 = 0)

\* the positions of an event that is being handled; each has one step, which
\* asks for nothing but the position
StepPcs ==
  { "get_user", "insert_user", "reget_user", "del_users", "del_msgs",
    "mem_view", "name_update", "age_update", "sm_now", "sm_insert", "sm_get",
    "sm_update", "recent", "call_backend", "summ_search", "summ_call",
    "summ_update", "reply" }

\* C6: no event ends without its reply: no request fails, every event that
\* is not yet answered is at a position that has a next step, an event at
\* the delivery step has a reply text to hand over, and every received event
\* is either answered or still being handled.
C6_AlwaysReplies ==
  /\ \A w \in Workers :
       /\ th[w].pc # "error"
       /\ InFlight(w) => th[w].pc \in StepPcs
       /\ AtReply(w) => th[w].reply # <<>>
  /\ nEvents = nReplied + Cardinality({ w \in Workers : InFlight(w) })

\* the backend failed and the fallback text is about to be delivered
C6_Witness ==
  \E w \in Workers :
    /\ AtReply(w)
    /\ th[w].path = "fallback"
    /\ th[w].reply = << FallbackText >>
    /\ nReplied < nEvents

\* C7: when the backend failed for a ready-state message, the reply is the
\* fallback text, exactly two turns were appended (the user's text with role
\* user, then the fallback text with role assistant) and the profile's state,
\* age and display_name are those the event found.
C7_FallbackLogged ==
  \A w \in Workers :
    (AtReply(w) /\ th[w].path = "fallback") =>
      LET b == th[w].base
          prof == Profile(th[w].uid)
      IN /\ th[w].user[1].state = "ready"
         /\ th[w].reply = << FallbackText >>
         /\ Len(messages_table) = b + 2
         /\ messages_table[b + 1].user_id = th[w].uid
         /\ messages_table[b + 1].role = "user"
         /\ messages_table[b + 1].content = th[w].text
         /\ messages_table[b + 2].user_id = th[w].uid
         /\ messages_table[b + 2].role = "assistant"
         /\ messages_table[b + 2].content = FallbackText
         /\ prof # <<>>
         /\ prof[1].state = th[w].user[1].state
         /\ prof[1].age = th[w].user[1].age
         /\ prof[1].display_name = th[w].user[1].display_name

\* a backend failure on a ready user's message, both turns logged
C7_Witness ==
  \E w \in Workers :
    /\ AtReply(w)
    /\ th[w].path = "fallback"
    /\ Len(messages_table) = th[w].base + 2
    /\ messages_table[Len(messages_table)].content = FallbackText

StateRank(state) ==
  CASE state = "need_name" -> 1
    [] state = "need_age" -> 2
    [] state = "ready" -> 3

\* no step that keeps the profile documents replaces a stored state by an
\* earlier one (a reset removes documents)
NoRegress ==
  Len(users_table') >= Len(users_table) =>
    \A i \in 1..Len(users_table) :
      users_table'[i].user_id = users_table[i].user_id =>
        StateRank(users_table'[i].state) >= StateRank(users_table[i].state)

\* C8, as claimed: no step replaces a profile's stored state by an earlier
\* one, also when events of the same user are handled concurrently.
C8_StateNeverRegresses == [][NoRegress]_vars

\* C8, amended: no step of an event that is handled with no other event of
\* the same user in flight replaces a stored state by an earlier one.
C8_NoRegressWhenAlone ==
  [][ \A w \in Workers :
        (th'[w].pc # th[w].pc /\ ~th[w].overlap) => NoRegress ]_vars

\* an event handled alone has moved its user from need_age to ready
C8_Witness ==
  \E w \in Workers :
    /\ AtReply(w)
    /\ ~th[w].overlap
    /\ th[w].path = "age_ok"
    /\ th[w].user[1].state = "need_age"
    /\ Profile(th[w].uid)[1].state = "ready"

\* C9, as claimed: at most one profile document per user_id.
C9_OneProfilePerUser ==
  \A u \in Users : Len(Matching(users_table, u)) <= 1

\* the window the claim describes: of the user's rows, the 8 that come last
\* by created_at and, among equal created_at, by insertion; in that order
WindowOK(win, table, u, prompt, user_text) ==
  LET idx == { i \in 1..Len(table) : table[i].user_id = u }
      Before(i, j) ==
        \/ table[i].created_at < table[j].created_at
        \/ table[i].created_at = table[j].created_at /\ i < j
      top == { i \in idx : Cardinality({ j \in idx : Before(i, j) }) < 8 }
      at(k) ==
        CHOOSE i \in top : Cardinality({ j \in top : Before(j, i) }) = k - 1
      off == Len(prompt) - Len(win) - 1
  IN /\ Len(win) <= 8
     /\ Len(win) = Cardinality(top)
     /\ \A k \in 1..Len(win) :
          /\ win[k] = table[at(k)]
          /\ win[k].user_id = u
          /\ k > 1 => win[k - 1].created_at <= win[k].created_at
          /\ prompt[off + k] =
               [ role |-> win[k].role, content |-> win[k].content ]
     /\ prompt[Len(prompt)] = [ role |-> "user", content |-> user_text ]

\* C10: the history window read for a prompt holds the user's last 8 stored
\* turns (all of them when there are fewer), none of another user, in
\* ascending created_at order with equal created_at in insertion order, and
\* the prompt carries exactly these turns before the new text.
C10_RecentWindow ==
  [][ \A w \in Workers :
        (th[w].pc = "recent" /\ th'[w].pc = "call_backend") =>
          WindowOK(th'[w].recent, messages_table, th[w].uid,
                   th'[w].prompt, th[w].text) ]_vars

\* a window of 8 turns read while the user has more than 8 turns, some of
\* them inserted out of created_at order, and another user has turns too
C10_Witness ==
  \E w \in Workers :
    /\ th[w].pc = "call_backend"
    /\ Len(th[w].recent) = 8
    /\ Len(Matching(messages_table, th[w].uid)) > 8
    /\ th[w].recent # LastN(Matching(messages_table, th[w].uid), 8)
    /\ \E i \in 1..Len(messages_table) :
         messages_table[i].user_id # th[w].uid
    /\ \E i, j \in 1..Len(messages_table) :
         /\ i < j
         /\ messages_table[i].user_id = th[w].uid
         /\ messages_table[j].user_id = th[w].uid
         /\ messages_table[i].created_at > messages_table[j].created_at

HasPrefix(s, p) == Len(s) >= Len(p) /\ SubSeq(s, 1, Len(p)) = p

HasSuffix(s, p) ==
  Len(s) >= Len(p) /\ SubSeq(s, Len(s) - Len(p) + 1, Len(s)) = p

\* the kind of a block of the prompt, told by its role and its fixed text
IsBaseBlock(b) == b.role = "system" /\ HasPrefix(b.content, BaseSystem)

IsIdentityBlock(b) == b.role = "system" /\ HasPrefix(b.content, IdentityPrefix)

IsAgeFactBlock(b) ==
  /\ b.role = "system"
  /\ b.content # <<>>
  /\ IsDigit(b.content[1])
  /\ HasSuffix(b.content, AgeFactSuffix)

IsPersonaBlock(b) == b.role = "system" /\ HasPrefix(b.content, PersonaPrefix)

PromptOK(prompt, user, recent, user_text) ==
  LET all == 1..Len(prompt)
      sys == { i \in all : prompt[i].role = "system" }
      bases == { i \in all : IsBaseBlock(prompt[i]) }
      ids == { i \in all : IsIdentityBlock(prompt[i]) }
      ages == { i \in all : IsAgeFactBlock(prompt[i]) }
      pers == { i \in all : IsPersonaBlock(prompt[i]) }
      nsys == Cardinality(sys)
  IN /\ bases = {1}
     /\ (ids # {}) <=> (user.display_name # <<>>)
     /\ (ages # {}) <=> (user.age # <<>>)
     /\ (pers # {}) <=> (user.persona_summary # <<>>)
     /\ Cardinality(ids) <= 1 /\ Cardinality(ages) <= 1
     /\ Cardinality(pers) <= 1
     /\ sys = bases \cup ids \cup ages \cup pers
     /\ nsys = 1 + Cardinality(ids) + Cardinality(ages) + Cardinality(pers)
     /\ \A i \in ids : prompt[i].content = IdentityBlock(user.display_name)
     /\ \A i \in ages : prompt[i].content = AgeFactBlock(user.age[1])
     /\ \A i \in pers : prompt[i].content = PersonaBlock(user.persona_summary)
     /\ \A i \in bases, j \in ids \cup ages \cup pers : i < j
     /\ \A i \in ids, j \in ages \cup pers : i < j
     /\ \A i \in ages, j \in pers : i < j
     /\ \A i \in sys, j \in all \ sys : i < j
     /\ Len(prompt) = nsys + Len(recent) + 1
     /\ \A k \in 1..Len(recent) :
          prompt[nsys + k] =
            [ role |-> recent[k].role, content |-> recent[k].content ]
     /\ prompt[Len(prompt)] = [ role |-> "user", content |-> user_text ]

\* C11: the prompt handed to the backend has an identity block exactly when
\* the profile's display_name is not empty, an age-fact block exactly when
\* its age is set and a persona block exactly when its persona_summary is
\* not empty, each carrying the field's value; the blocks come in the order
\* base persona with the age rule, identity, age fact, persona summary, the
\* history turns, and the new user text as the last block.
C11_PromptBlocks ==
  \A w \in Workers :
    th[w].pc = "call_backend" =>
      PromptOK(th[w].prompt, th[w].user[1], th[w].recent, th[w].text)

\* a prompt for a profile with a summary but neither a name nor an age: the
\* base block, the persona block, the history and the new text
C11_Witness ==
  \E w \in Workers :
    /\ th[w].pc = "call_backend"
    /\ th[w].user[1].display_name = <<>>
    /\ th[w].user[1].age = <<>>
    /\ th[w].user[1].persona_summary # <<>>
    /\ Len(th[w].recent) = 8
    /\ Len(th[w].prompt) = 2 + 8 + 1
    /\ IsPersonaBlock(th[w].prompt[2])

\* C12: when the summarizer's backend call fails, the event goes on to the
\* delivery with the reply the backend gave for the message (not the fallback
\* text), no document of the store changes, so that persona_summary is still
\* the value the event found, and the two turns of the exchange, the user's
\* text and that reply, are the last two turns logged.
C12_SummaryFailureSwallowed ==
  [][ \A w \in Workers :
        (th[w].pc = "summ_call" /\ th'[w].pc # "summ_update") =>
          LET b == th[w].base
          IN /\ th'[w].pc = "reply"
             /\ th'[w].path = "ai"
             /\ th'[w].reply = th[w].reply
             /\ th[w].reply # << FallbackText >>
             /\ users_table' = users_table
             /\ Profile(th[w].uid)[1].persona_summary =
                  th[w].user[1].persona_summary
             /\ messages_table' = messages_table
             /\ Len(messages_table) = b + 2
             /\ messages_table[b + 1] =
                  [ messages_table[b + 1] EXCEPT
                      !.user_id = th[w].uid, !.role = "user",
                      !.content = th[w].text ]
             /\ messages_table[b + 2] =
                  [ messages_table[b + 2] EXCEPT
                      !.user_id = th[w].uid, !.role = "assistant",
                      !.content = th[w].reply[1] ] ]_vars

\* the summarizer fired for a user who already had a summary, its call
\* failed, and the reply is about to be delivered with the summary kept
C12_Witness ==
  \E w \in Workers :
    /\ AtReply(w)
    /\ th[w].path = "ai"
    /\ th[w].fired
    /\ th[w].summary = <<>>
    /\ th[w].user[1].persona_summary # <<>>
    /\ Profile(th[w].uid)[1].persona_summary = th[w].user[1].persona_summary

\* C13, as claimed: an event that found its user in need_name and whose
\* text is not the reset keyword has stored the trimmed text as display_name,
\* moved the state to need_age and replies with the acknowledgment that
\* echoes the name: no other text is taken out before the dispatch on state.
C13_OnlyResetIntercepted ==
  \A w \in Workers :
    ( /\ AtReply(w)
      /\ th[w].user[1].state = "need_name"
      /\ Strip(th[w].text) # ResetKeyword ) =>
      /\ Profile(th[w].uid) # <<>>
      /\ Profile(th[w].uid)[1].display_name = Strip(th[w].text)
      /\ Profile(th[w].uid)[1].state = "need_age"
      /\ th[w].reply = << NameAck(Strip(th[w].text)) >>

\* C13, amended: the same for every text that is neither the reset nor the
\* memory-view keyword; the memory-view keyword is taken out before the
\* dispatch on state too, and leaves the profile as the event found it.
C13_ResetAndMemoryViewIntercepted ==
  \A w \in Workers :
    ( /\ AtReply(w)
      /\ th[w].user[1].state = "need_name"
      /\ Strip(th[w].text) # ResetKeyword ) =>
      /\ Profile(th[w].uid) # <<>>
      /\ IF Strip(th[w].text) = MemoryKeyword
         THEN /\ Profile(th[w].uid) = th[w].user
              /\ th[w].reply # << NameAck(Strip(th[w].text)) >>
              /\ Len(messages_table) = th[w].base
         ELSE /\ Profile(th[w].uid)[1].display_name = Strip(th[w].text)
              /\ Profile(th[w].uid)[1].state = "need_age"
              /\ Profile(th[w].uid)[1].age = <<>>
              /\ th[w].reply = << NameAck(Strip(th[w].text)) >>

\* a user left in need_name by a memory-view command sends digits, which
\* are taken as the name
C13_Witness ==
  \E w \in Workers :
    /\ AtReply(w)
    /\ ~th[w].created
    /\ th[w].user[1].state = "need_name"
    /\ th[w].text = <<49, 50, 48>>
    /\ Profile(th[w].uid)[1].display_name = <<49, 50, 48>>
    /\ Profile(th[w].uid)[1].state = "need_age"

\* C14, as claimed: when a ready-state event is at the backend call, its
\* user turn is already stored and counted: the turn is the first one
\* appended since the event began and message_count is one more than the
\* count the event found.
C14_UserTurnLoggedBeforeBackend ==
  \A w \in Workers :
    th[w].pc = "call_backend" =>
      LET b == th[w].base
      IN /\ Len(messages_table) > b
         /\ messages_table[b + 1].user_id = th[w].uid
         /\ messages_table[b + 1].role = "user"
         /\ messages_table[b + 1].content = th[w].text
         /\ Profile(th[w].uid)[1].message_count =
              th[w].user[1].message_count + 1

\* the turns an event has appended and the counts it has added so far
Logged(w) == Len(messages_table) - th[w].base

Counted(w) ==
  Profile(th[w].uid)[1].message_count - th[w].user[1].message_count

\* C14, amended: a ready-state event first assembles the prompt, then calls
\* the backend, and only then logs and counts the user turn, logs the
\* assistant turn (the backend's reply, or the fallback text when the call
\* failed), runs the summarizer (on success) and hands the reply to the
\* delivery: at the backend call nothing of the event is stored yet.
C14_BackendBeforeUserTurn ==
  \A w \in Workers :
    th[w].path \in {"ai", "fallback"} =>
      /\ th[w].pc = "recent" =>
           Logged(w) = 0 /\ Counted(w) = 0 /\ th[w].prompt = <<>>
      /\ th[w].pc = "call_backend" =>
           /\ Logged(w) = 0 /\ Counted(w) = 0
           /\ th[w].prompt # <<>> /\ th[w].reply = <<>>
      /\ (th[w].pc \in {"sm_now", "sm_insert"} /\ th[w].role = "user") =>
           Logged(w) = 0 /\ Counted(w) = 0 /\ th[w].reply # <<>>
      /\ th[w].pc \in {"sm_get", "sm_update"} =>
           /\ Logged(w) = 1 /\ Counted(w) = 0
           /\ messages_table[th[w].base + 1].role = "user"
      /\ (th[w].pc \in {"sm_now", "sm_insert"} /\ th[w].role = "assistant") =>
           Logged(w) = 1 /\ Counted(w) = 1
      /\ th[w].pc \in {"summ_search", "summ_call", "summ_update"} =>
           /\ Logged(w) = 2 /\ Counted(w) = 1 /\ th[w].path = "ai"
           /\ messages_table[th[w].base + 2].role = "assistant"
      /\ th[w].pc = "reply" =>
           /\ Logged(w) = 2 /\ Counted(w) = 1
           /\ messages_table[th[w].base + 2].content = th[w].reply[1]

\* the summarizer's request is about to be sent: both turns of the exchange
\* are stored and the user turn is counted
C14_Witness ==
  \E w \in Workers :
    /\ th[w].pc = "summ_call"
    /\ th[w].path = "ai"
    /\ Logged(w) = 2
    /\ Counted(w) = 1
    /\ th[w].prompt # <<>>

\* no event is being handled
Quiet == \A w \in Workers : ~InFlight(w)

\* C15, as claimed: when every received event of a user has been handled,
\* also after events handled concurrently, the profile's message_count is
\* the number of user-authored turns logged for the user.
C15_NoLostIncrement ==
  Quiet =>
    \A u \in Users :
      Profile(u) # <<>> => Profile(u)[1].message_count = Len(UserTurns(u))

\* C16, as claimed: the reply of an event is decided by the user's own data:
\* what the memory-view command shows is what it would show if the store held
\* this user's profile and turns only, so that two stores which differ in
\* other users' documents give the same reply.
C16_ReplyFromOwnData ==
  \A w \in Workers :
    (AtReply(w) /\ th[w].path = "memory"
       /\ th[w].reply # << MemoryErrorText >>) =>
      th[w].reply =
        << MemoryReply(MemoryData(Matching(users_table, th[w].uid),
                                  Matching(messages_table, th[w].uid))) >>

\* the documents of user u, profiles and turns, in insertion order
DataOf(users, msgs, u) == << Matching(users, u), Matching(msgs, u) >>

\* C17: no step of an event of one user changes a profile document or a
\* stored turn of another user, whether or not events of the other user are
\* being handled at the same time; a reset deletes the sender's documents
\* only.
C17_OtherUsersUntouched ==
  [][ \A w \in Workers :
        (InFlight(w) /\ th'[w].pc # th[w].pc) =>
          \A u \in Users \ { th[w].uid } :
            DataOf(users_table', messages_table', u) =
              DataOf(users_table, messages_table, u) ]_vars

\* a reset by one user has deleted that user's documents while an event of
\* the other user is in flight; the other user's profile and 20 turns are
\* in the store
C17_Witness ==
  \E w, o \in Workers :
    /\ AtReply(w)
    /\ th[w].path = "reset"
    /\ DataOf(users_table, messages_table, th[w].uid) = << <<>>, <<>> >>
    /\ InFlight(o)
    /\ th[o].uid # th[w].uid
    /\ Profile(th[o].uid) # <<>>
    /\ Len(Matching(messages_table, th[o].uid)) >= 2 * SummaryEvery

\* a log in insertion order that starts with a user turn, alternates user,
\* assistant and has even length
Alternates(log) ==
  /\ Len(log) % 2 = 0
  /\ \A i \in 1..Len(log) :
       log[i].role = (IF i % 2 = 1 THEN "user" ELSE "assistant")

\* between two events and at the delivery of a reply: the event that is not
\* a reset or memory-view command has appended two turns, the text as it
\* came and the reply as it is delivered, and every user's log alternates
TurnsPaired ==
  /\ \A w \in Workers :
       (AtReply(w) /\ th[w].path \notin {"reset", "memory"}) =>
         LET b == th[w].base
         IN /\ Len(messages_table) = b + 2
            /\ messages_table[b + 1] =
                 [ messages_table[b + 1] EXCEPT
                     !.user_id = th[w].uid, !.role = "user",
                     !.content = th[w].text ]
            /\ messages_table[b + 2] =
                 [ messages_table[b + 2] EXCEPT
                     !.user_id = th[w].uid, !.role = "assistant",
                     !.content = th[w].reply[1] ]
  /\ (Quiet \/ \E w \in Workers : AtReply(w)) =>
       \A u \in Users : Alternates(Matching(messages_table, u))

\* a step appends one turn, or removes every turn of the user who sent a
\* reset, or leaves the turns alone: no stored turn is changed
TurnsKept ==
  \/ messages_table' = messages_table
  \/ /\ Len(messages_table') = Len(messages_table) + 1
     /\ SubSeq(messages_table', 1, Len(messages_table)) = messages_table
  \/ \E w \in Workers :
       /\ th[w].path = "reset"
       /\ Matching(messages_table', th[w].uid) = <<>>
       /\ \A i \in 1..Len(messages_table') :
            \E j \in 1..Len(messages_table) :
              messages_table'[i] = messages_table[j]
       /\ \A u \in Users \ { th[w].uid } :
            Matching(messages_table', u) = Matching(messages_table, u)

\* C18: with events handled one after the other, every event other than a
\* reset or a memory-view command appends exactly two turns of its user, the
\* inbound text verbatim with role user and then the delivered reply with
\* role assistant; between events every user's log in insertion order starts
\* with a user turn, alternates and has even length; and no step changes a
\* stored turn.
C18_TwoTurnsPerEvent == []TurnsPaired /\ [][TurnsKept]_vars

\* the text " Taro" was logged with its leading blank, followed by the reply
\* that is being delivered
C18_Witness ==
  \E w \in Workers :
    /\ AtReply(w)
    /\ th[w].path = "name"
    /\ th[w].text = NameText
    /\ messages_table[th[w].base + 1].content = NameText
    /\ messages_table[th[w].base + 1].content # Strip(NameText)
    /\ messages_table[th[w].base + 2].content = th[w].reply[1]
    /\ Len(messages_table) >= 4

\* C19, as claimed: when no event is being handled, every stored turn
\* belongs to a user who has a profile, also after a reset that was handled
\* while another event of the same user was in flight.
C19_NoOrphanTurns ==
  Quiet =>
    \A i \in 1..Len(messages_table) :
      Profile(messages_table[i].user_id) # <<>>

\* the language rule of a prompt: what follows the base directive in its
\* first block
RuleOf(prompt) ==
  SubSeq(prompt[1].content, Len(BaseSystem) + 1, Len(prompt[1].content))

\* C20: the rule put in the prompt is the default rule exactly when the age
\* is unset, the rule for age <= 6 for the ages 1..6, the rule for age <= 8
\* for 7..8, the rule for age <= 10 for 9..10 and the rule for older children
\* for 11..120, whatever the name, the summary and the history are; and the
\* step that selects it changes no document of the store.
C20_AgeRuleStepFunction ==
  [][ \A w \in Workers :
        (th[w].pc = "recent" /\ th'[w].pc = "call_backend") =>
          LET age == th[w].user[1].age
              rule == RuleOf(th'[w].prompt)
          IN /\ users_table' = users_table
             /\ messages_table' = messages_table
             /\ HasPrefix(th'[w].prompt[1].content, BaseSystem)
             /\ (rule = DefaultRule) <=> (age = <<>>)
             /\ age # <<>> =>
                  /\ age[1] \in 1..6 => rule = RuleUpTo6
                  /\ age[1] \in 7..8 => rule = RuleUpTo8
                  /\ age[1] \in 9..10 => rule = RuleUpTo10
                  /\ age[1] \in 11..120 => rule = RuleOlder
                  /\ rule \in {RuleUpTo6, RuleUpTo8, RuleUpTo10, RuleOlder}
      ]_vars

\* the boundary of the first tier: a prompt for a child of 6 carries the
\* rule for age <= 6
C20_Witness ==
  \E w \in Workers :
    /\ th[w].pc = "call_backend"
    /\ th[w].user[1].age = <<6>>
    /\ RuleOf(th[w].prompt) = RuleUpTo6
    /\ RuleOf(th[w].prompt) # RuleUpTo8

====
